---- MODULE Spec2Model ----
\* Period partitioning and split aggregation of gncAnalysis
\* (acctAnalysisSum.py, getRevQtr.py, findAssetValue.py).
\*
\* Dates are proleptic Gregorian ordinals, as datetime.date.toordinal() gives.
\* Decimal sums are held as integers in units of 10^-Scale; the amounts of the
\* model stay far below the 28 significant digits of Python's default Decimal
\* context, so Decimal addition is exact here.
EXTENDS Integers, Sequences, FiniteSets, TLC

\* ------------------------------------------------------------------ bounds
MaxSplits == 2      \* splits in the book under the account of interest
MaxExampleSplits == 3   \* the same, in the runs on the arguments of the example
MaxPeriods == 3     \* largest <number of periods> argument of a full run
MaxCount == 4       \* largest <number of periods> when only periods are built
MaxNum == 60        \* largest |numerator| handed to the decimal conversion
MaxPathLen == 3     \* longest account path resolved on its own
Scale == 2          \* sums are counted in units of 10^-Scale

None == "None"

\* ------------------------------------------------------------------ dates
IsLeap(y) == (y % 4 = 0) /\ ((y % 100 # 0) \/ (y % 400 = 0))

DaysBeforeYear(y) ==
    LET p == y - 1 IN (p * 365) + (p \div 4) - (p \div 100) + (p \div 400)

DaysBeforeMonth(y, m) ==
    LET cum == <<0, 31, 59, 90, 120, 151, 181, 212, 243, 273, 304, 334>>
    IN cum[m] + (IF m > 2 /\ IsLeap(y) THEN 1 ELSE 0)

\* date(y, m, d) as its ordinal
date(y, m, d) == DaysBeforeYear(y) + DaysBeforeMonth(y, m) + d

ONE_DAY == 1

\* ------------------------------------------------------------------ periods
PERIODS ==
    [pt \in {"monthly", "quarterly", "thirdly", "halfly", "yearly", "biyearly"} |->
        CASE pt = "monthly" -> 1
          [] pt = "quarterly" -> 3
          [] pt = "thirdly" -> 4
          [] pt = "halfly" -> 6
          [] pt = "yearly" -> 12
          [] pt = "biyearly" -> 24]

NUM_MONTHS == 12

\* an operator's outcome: a returned value or a raised exception
Return(v) == [ok |-> TRUE, val |-> v]
Raise(e, where, info) == [ok |-> FALSE, err |-> e, where |-> where, info |-> info]

\* next_period_start taking the year from the month counted from 1
next_period_start_year_from_one(start_year, start_month, period_type) ==
    LET end_month == start_month + PERIODS[period_type]
    IN <<start_year + (end_month \div NUM_MONTHS),
         ((end_month - 1) % NUM_MONTHS) + 1>>

next_period_start(start_year, start_month, period_type) ==
    LET end_month == start_month + PERIODS[period_type]
    IN <<start_year + ((end_month - 1) \div NUM_MONTHS),
         ((end_month - 1) % NUM_MONTHS) + 1>>

\* period_end returning the first day of the next period
period_end_next_day(start_year, start_month, period_type) ==
    IF period_type \notin DOMAIN PERIODS
    THEN Raise("Exception", "period_end", <<period_type, DOMAIN PERIODS>>)
    ELSE LET nxt == next_period_start(start_year, start_month, period_type)
         IN Return(date(nxt[1], nxt[2], 1))

period_end(start_year, start_month, period_type) ==
    IF period_type \notin DOMAIN PERIODS
    THEN Raise("Exception", "period_end", <<period_type, DOMAIN PERIODS>>)
    ELSE LET nxt == next_period_start(start_year, start_month, period_type)
         IN Return(date(nxt[1], nxt[2], 1) - ONE_DAY)

\* the generator run to exhaustion: the sequence of (start_date, end_date) it
\* yields, or the exception period_end raises on the way
RECURSIVE generate_period_boundaries(_, _, _, _)
generate_period_boundaries(start_year, start_month, period_type, periods) ==
    IF periods <= 0 THEN Return(<<>>)
    ELSE LET e == period_end(start_year, start_month, period_type)
         IN IF ~e.ok THEN e
            ELSE LET nxt == next_period_start(start_year, start_month, period_type)
                     rest == generate_period_boundaries(nxt[1], nxt[2], period_type,
                                                        periods - 1)
                 IN IF ~rest.ok THEN rest
                    ELSE Return(<<<<date(start_year, start_month, 1), e.val>>>>
                                \o rest.val)

\* ------------------------------------------------------- decimal conversion
RECURSIVE Pow10(_)
Pow10(k) == IF k <= 0 THEN 1 ELSE 10 * Pow10(k - 1)

Abs(n) == IF n < 0 THEN -n ELSE n

RECURSIVE Gcd(_, _)
Gcd(a, b) == IF b = 0 THEN a ELSE Gcd(b, a % b)

\* int(log10(d)) for d >= 1
RECURSIVE ILog10(_)
ILog10(d) == IF d < 10 THEN 0 ELSE 1 + ILog10(d \div 10)

\* the digits of str(n) with the '-' dropped
RECURSIVE StrDigits(_)
StrDigits(n) ==
    LET a == Abs(n)
    IN IF a < 10 THEN <<a>> ELSE Append(StrDigits(a \div 10), a % 10)

\* the integer a digit tuple spells
RECURSIVE DigitsToInt(_)
DigitsToInt(ds) ==
    IF ds = <<>> THEN 0
    ELSE 10 * DigitsToInt(SubSeq(ds, 1, Len(ds) - 1)) + ds[Len(ds)]

\* GncNumeric.negative_p()
negative_p(numeric) == numeric.num < 0

\* does q divide a power of ten (q >= 1)
RECURSIVE OnlyTwosAndFives(_)
OnlyTwosAndFives(q) ==
    IF q = 1 THEN TRUE
    ELSE IF q % 2 = 0 THEN OnlyTwosAndFives(q \div 2)
    ELSE IF q % 5 = 0 THEN OnlyTwosAndFives(q \div 5)
    ELSE FALSE

\* the least power of ten that q divides (q divides some power of ten)
RECURSIVE LeastPow10Multiple(_, _)
LeastPow10Multiple(q, p) == IF p % q = 0 THEN p ELSE LeastPow10Multiple(q, 10 * p)

IsPow10(d) == d >= 1 /\ Pow10(ILog10(d)) = d

\* GncNumeric.to_decimal(None) of the ledger library, acting on the copy in
\* place: TRUE and the copy unchanged when it is zero or already decimal, TRUE
\* and the copy rewritten over a power of ten when its value terminates, FALSE
\* and the copy unchanged otherwise.
gnc_to_decimal(copy) ==
    IF copy.num = 0 \/ IsPow10(copy.denom)
    THEN [result |-> TRUE, num |-> copy.num, denom |-> copy.denom]
    ELSE LET g == Gcd(Abs(copy.num), copy.denom)
             q == copy.denom \div g
         IN IF OnlyTwosAndFives(q)
            THEN LET p == LeastPow10Multiple(q, 1)
                 IN [result |-> TRUE, num |-> (copy.num \div g) * (p \div q),
                     denom |-> p]
            ELSE [result |-> FALSE, num |-> copy.num, denom |-> copy.denom]

\* a Python Decimal built from (sign, digit_tuple, exponent)
Decimal(sign, digit_tuple, exponent) ==
    [sign |-> sign, digits |-> digit_tuple, exp |-> exponent]

\* the conversion with the sign taken the wrong way round
gnc_numeric_to_python_decimal_sign(numeric) ==
    LET negative == negative_p(numeric)
        sign == IF negative THEN 0 ELSE 1
        copy == gnc_to_decimal([num |-> numeric.num, denom |-> numeric.denom])
    IN IF ~copy.result
       THEN Raise("Exception", "gnc_numeric_to_python_decimal",
                  <<numeric.num, numeric.denom>>)
       ELSE LET digit_tuple == StrDigits(copy.num)
                denominator == copy.denom
                exponent == ILog10(denominator)
            IN IF Pow10(exponent) # denominator
               THEN Raise("AssertionError", "gnc_numeric_to_python_decimal",
                          <<copy.num, copy.denom>>)
               ELSE Return(Decimal(sign, digit_tuple, -exponent))

\* the conversion raising when to_decimal succeeded instead of when it failed
gnc_numeric_to_python_decimal_if_result(numeric) ==
    LET negative == negative_p(numeric)
        sign == IF negative THEN 1 ELSE 0
        copy == gnc_to_decimal([num |-> numeric.num, denom |-> numeric.denom])
    IN IF copy.result
       THEN Raise("Exception", "gnc_numeric_to_python_decimal",
                  <<numeric.num, numeric.denom>>)
       ELSE LET digit_tuple == StrDigits(copy.num)
                denominator == copy.denom
                exponent == ILog10(denominator)
            IN IF Pow10(exponent) # denominator
               THEN Raise("AssertionError", "gnc_numeric_to_python_decimal",
                          <<copy.num, copy.denom>>)
               ELSE Return(Decimal(sign, digit_tuple, -exponent))

gnc_numeric_to_python_decimal(numeric) ==
    LET negative == negative_p(numeric)
        sign == IF negative THEN 1 ELSE 0
        copy == gnc_to_decimal([num |-> numeric.num, denom |-> numeric.denom])
    IN IF ~copy.result
       THEN Raise("Exception", "gnc_numeric_to_python_decimal",
                  <<numeric.num, numeric.denom>>)
       ELSE LET digit_tuple == StrDigits(copy.num)
                denominator == copy.denom
                exponent == ILog10(denominator)
            IN IF Pow10(exponent) # denominator
               THEN Raise("AssertionError", "gnc_numeric_to_python_decimal",
                          <<copy.num, copy.denom>>)
               ELSE Return(Decimal(sign, digit_tuple, -exponent))

\* the value of a Decimal in units of 10^-Scale (its exponent is >= -Scale)
DecimalUnits(d) ==
    (IF d.sign = 1 THEN -1 ELSE 1) * DigitsToInt(d.digits) * Pow10(Scale + d.exp)

ZERO == DecimalUnits(Decimal(0, <<0>>, 0))

\* ------------------------------------------------------------- account tree
\* The book: root account "Root" with the children A and E; A has the children
\* B and C; B, C and E are leaves.  An account is named by its id.
Accounts == {"Root", "A", "A:B", "A:C", "E"}

AcctParent ==
    [a \in Accounts \ {"Root"} |->
        CASE a = "A" -> "Root" [] a = "A:B" -> "A" [] a = "A:C" -> "A"
          [] a = "E" -> "Root"]

AcctName ==
    [a \in Accounts \ {"Root"} |->
        CASE a = "A" -> "A" [] a = "A:B" -> "B" [] a = "A:C" -> "C"
          [] a = "E" -> "E"]

Names == {"A", "B", "C", "E", "X"}

\* Account.lookup_by_name: the child of that name, or None
lookup_by_name(top_account, name) ==
    LET hits == {a \in Accounts \ {"Root"} :
                    AcctParent[a] = top_account /\ AcctName[a] = name}
    IN IF hits = {} THEN None ELSE CHOOSE a \in hits : TRUE

\* Account.get_descendants(): every account below acct, in the book's order
BookOrder == <<"A", "A:B", "A:C", "E">>

RECURSIVE IsBelow(_, _)
IsBelow(a, top) ==
    IF a = "Root" THEN FALSE
    ELSE AcctParent[a] = top \/ IsBelow(AcctParent[a], top)

get_descendants(acct) == SelectSeq(BookOrder, LAMBDA a : IsBelow(a, acct))

\* original_path=None, the default of account_from_path: no path is empty
NoPath == <<>>

\* account_from_path reporting the path it was called with at each depth
RECURSIVE account_from_path_remainder(_, _, _)
account_from_path_remainder(top_account, account_path, original_path) ==
    LET account == lookup_by_name(top_account, account_path[1])
        rest == Tail(account_path)
    IN IF account = None THEN Raise("Exception", "account_from_path", account_path)
       ELSE IF Len(rest) > 0
            THEN account_from_path_remainder(account, rest, original_path)
       ELSE Return(account)

RECURSIVE account_from_path(_, _, _)
account_from_path(top_account, account_path, original_path) ==
    LET orig == IF original_path = NoPath THEN account_path ELSE original_path
        account == lookup_by_name(top_account, account_path[1])
        rest == Tail(account_path)
    IN IF account = None THEN Raise("Exception", "account_from_path", orig)
       ELSE IF Len(rest) > 0 THEN account_from_path(account, rest, orig)
       ELSE Return(account)

\* ---------------------------------------------------------------- get_splits
\* bisect.bisect_right(a, x): binary search over a[lo..hi), 0-based
RECURSIVE bisect_search(_, _, _, _)
bisect_search(a, x, lo, hi) ==
    IF lo < hi
    THEN LET mid == (lo + hi) \div 2
         IN IF x < a[mid + 1] THEN bisect_search(a, x, lo, mid)
            ELSE bisect_search(a, x, mid + 1, hi)
    ELSE lo

\* bisect.bisect_left taken for bisect_right
RECURSIVE bisect_search_left(_, _, _, _)
bisect_search_left(a, x, lo, hi) ==
    IF lo < hi
    THEN LET mid == (lo + hi) \div 2
         IN IF a[mid + 1] < x THEN bisect_search_left(a, x, mid + 1, hi)
            ELSE bisect_search_left(a, x, lo, mid)
    ELSE lo

bisect_left(a, x) == bisect_search_left(a, x, 0, Len(a))

bisect_right(a, x) == bisect_search(a, x, 0, Len(a))

\* one row of period_list:
\* [start_date, end_date, debits, credits, debits sum, credits sum, TOTAL]
NewPeriod(start_date, end_date) ==
    [start_date |-> start_date, end_date |-> end_date, debits |-> <<>>,
     creds |-> <<>>, debit_sum |-> ZERO, credit_sum |-> ZERO, total |-> ZERO]

\* the offset with zero counted as a credit
debit_credit_offset_le(split_amount) == IF split_amount <= ZERO THEN 1 ELSE 0

\* the offset with the buckets swapped
debit_credit_offset_gt(split_amount) == IF split_amount > ZERO THEN 1 ELSE 0

\* if the amount is negative this is a credit, else a debit
debit_credit_offset(split_amount) == IF split_amount < ZERO THEN 1 ELSE 0

\* the accumulation with the TOTAL kept for debits only
accumulate_debit_total(period, split, split_amount) ==
    IF split_amount < ZERO
    THEN [period EXCEPT !.creds = Append(@, split),
                        !.credit_sum = @ + split_amount]
    ELSE [period EXCEPT !.debits = Append(@, split),
                        !.debit_sum = @ + split_amount,
                        !.total = @ + split_amount]

\* the accumulation with the sums assigned instead of added to
accumulate_overwrite(period, split, split_amount) ==
    LET offset == debit_credit_offset(split_amount)
    IN IF offset = 0
       THEN [period EXCEPT !.debits = Append(@, split),
                           !.debit_sum = split_amount,
                           !.total = split_amount]
       ELSE [period EXCEPT !.creds = Append(@, split),
                           !.credit_sum = split_amount,
                           !.total = split_amount]

\* period[2 + offset].append(...); period[4 + offset] += amount; period[6] += amount
accumulate(period, split, split_amount) ==
    LET offset == debit_credit_offset(split_amount)
    IN IF offset = 0
       THEN [period EXCEPT !.debits = Append(@, split),
                           !.debit_sum = @ + split_amount,
                           !.total = @ + split_amount]
       ELSE [period EXCEPT !.creds = Append(@, split),
                           !.credit_sum = @ + split_amount,
                           !.total = @ + split_amount]

\* the window test without the comparison against the last period_end
in_window_no_end(period_index, trans_date, a_period_list) == period_index >= 0

\* does the split fall in the window of the table: the if of get_splits
in_window(period_index, trans_date, a_period_list) ==
    period_index >= 0 /\ trans_date <= a_period_list[Len(a_period_list)].end_date

\* the body of the for loop of get_splits, for one split: the period table
\* after it, or the exception it raises
get_splits_body(split, a_period_starts, a_period_list) ==
    LET trans_date == split.date
        period_index == bisect_right(a_period_starts, trans_date) - 1
    IN IF in_window(period_index, trans_date, a_period_list)
       THEN LET period == a_period_list[period_index + 1]
            IN IF ~(period.end_date >= trans_date /\ trans_date >= period.start_date)
               THEN Raise("AssertionError", "get_splits", <<period_index, trans_date>>)
               ELSE LET conv == gnc_numeric_to_python_decimal(split.amount)
                    IN IF ~conv.ok THEN conv
                       ELSE Return([a_period_list EXCEPT ![period_index + 1] =
                                      accumulate(period, split, DecimalUnits(conv.val))])
       ELSE Return(a_period_list)

\* -------------------------------------------------------------------- state
VARIABLES
    pc,                   \* where the run is
    argv,                 \* the command line, parsed
    book,                 \* the ledger: account -> its split list
    account_of_interest,
    period_list,
    period_starts,
    todo,                 \* the accounts get_splits is still to be called on
    idx,                  \* the next split of Head(todo), 1-based
    exc,                  \* the exception that left the function, if any
    arg,                  \* the argument of a function called on its own
    out,                  \* and its outcome
    gen,                  \* the frame of a generate_period_boundaries generator
    session,              \* gnucash_session: is it open, how often was it ended
    stdout,               \* the rows written by csv_writer and the closing line
    ae                    \* the exception caught by "except Exception as ae"

vars == <<pc, argv, book, account_of_interest, period_list, period_starts,
          todo, idx, exc, arg, out, gen, session, stdout, ae>>

NoExc == Raise("None", "None", <<>>)
NoArgv == [start_year |-> 0, start_month |-> 0, period_type |-> None,
           periods |-> 0, debits_show |-> FALSE, credits_show |-> FALSE,
           account_path |-> <<>>]
NoGen == [start_year |-> 0, start_month |-> 0, period_type |-> None,
          periods |-> 0, i |-> 0, suspended |-> FALSE]

\* no Session(...) yet, and the session Session(...) returns
NoSession == [opened |-> FALSE, ends |-> 0]
Session == [opened |-> TRUE, ends |-> 0]

\* gnucash_session.end()
end(a_session) == [a_session EXCEPT !.ends = @ + 1]

\* the names a function binds as locals: those it assigns, less those it
\* declares global
locals(assigned, declared_global) == assigned \ declared_global

\* aa_sum_main of acctAnalysisSum.py declares gnucash_session global
aa_sum_main_locals ==
    locals({"exe", "gnucash_file", "start_year", "start_month", "period_type",
            "periods", "debits_show", "credits_show", "account_path",
            "gnucash_session", "root_account", "account_of_interest",
            "period_list", "period_starts", "descendants", "csv_writer", "ae"},
           {"gnucash_session"})

\* the body of the except clause before its last statement:
\*   if "gnucash_session" in locals() and gnucash_session is not None:
\*       gnucash_session.end()
except_handler(a_session, in_locals) ==
    IF "gnucash_session" \in in_locals /\ a_session.opened
    THEN end(a_session) ELSE a_session
EmptyBook == [a \in Accounts |-> <<>>]

Split(num, denom, y, m, d) ==
    [amount |-> [num |-> num, denom |-> denom], date |-> date(y, m, d)]

\* the splits a book is made of
SplitDomain ==
    { Split(10000, 100, 2020, 1, 15),
      Split(-4000, 100, 2020, 2, 10),
      Split(500, 100, 2020, 4, 1),
      Split(0, 10, 2019, 12, 31),
      Split(-25, 10, 2020, 2, 1),
      Split(7, 1, 2020, 1, 31),
      Split(1, 3, 2020, 2, 10) }

RECURSIVE SplitLists(_)
SplitLists(k) ==
    IF k = 0 THEN {<<>>}
    ELSE {Append(l, s) : l \in SplitLists(k - 1), s \in SplitDomain}

\* the books with at most n splits, all of them in the accounts of accts
RECURSIVE BooksOver(_, _)
BooksOver(accts, n) ==
    IF accts = <<>> THEN {EmptyBook}
    ELSE UNION {{[b EXCEPT ![Head(accts)] = l] :
                    l \in SplitLists(k), b \in BooksOver(Tail(accts), n - k)} :
                k \in 0..n}

StartDomain == {<<2020, 1>>, <<2019, 11>>}
PeriodTypes == {"monthly", "quarterly", "fortnightly"}
PathDomain == {<<"A">>, <<"A", "B">>, <<"E">>, <<"A", "X">>, <<"B">>}

\* the accounts a run on this path reads splits of
Scanned(path) ==
    LET r == account_from_path("Root", path, NoPath)
    IN IF r.ok THEN <<r.val>> \o get_descendants(r.val) ELSE <<>>

\* aa_sum_main up to Session(...): the arguments are parsed, the book is open
Init ==
    /\ pc = "resolve"
    /\ \E st \in StartDomain, pt \in PeriodTypes, n \in 0..MaxPeriods,
          path \in PathDomain :
          /\ argv = [start_year |-> st[1], start_month |-> st[2],
                     period_type |-> pt, periods |-> n,
                     debits_show |-> TRUE, credits_show |-> TRUE,
                     account_path |-> path]
          /\ book \in BooksOver(Scanned(path), MaxSplits)
    /\ account_of_interest = None
    /\ period_list = <<>>
    /\ period_starts = <<>>
    /\ todo = <<>>
    /\ idx = 1
    /\ exc = NoExc
    /\ arg = None
    /\ out = NoExc
    /\ gen = NoGen
    /\ session = Session
    /\ stdout = <<>>
    /\ ae = NoExc

\* account_of_interest = account_from_path(root_account, account_path)
Resolve ==
    /\ pc = "resolve"
    /\ LET r == account_from_path("Root", argv.account_path, NoPath)
       IN \/ /\ r.ok
             /\ account_of_interest' = r.val
             /\ pc' = "periods"
             /\ exc' = exc
             /\ UNCHANGED <<session, ae>>
          \/ /\ ~r.ok
             /\ ae' = r
             /\ session' = except_handler(session, aa_sum_main_locals)
             /\ exc' = r
             /\ pc' = "raised"
             /\ account_of_interest' = account_of_interest
    /\ UNCHANGED <<argv, book, period_list, period_starts, todo, idx, arg, out,
                   gen, stdout>>

\* period_list = [...], period_starts = [...], descendants = get_descendants()
BuildPeriods ==
    /\ pc = "periods"
    /\ LET g == generate_period_boundaries(argv.start_year, argv.start_month,
                                           argv.period_type, argv.periods)
           descendants == get_descendants(account_of_interest)
       IN \/ /\ g.ok
             /\ period_list' = [i \in 1..Len(g.val) |->
                                    NewPeriod(g.val[i][1], g.val[i][2])]
             /\ period_starts' = [i \in 1..Len(g.val) |-> g.val[i][1]]
             /\ todo' = IF Len(descendants) = 0 THEN <<account_of_interest>>
                        ELSE descendants
             /\ pc' = "scan"
             /\ exc' = exc
             /\ UNCHANGED <<session, ae>>
          \/ /\ ~g.ok
             /\ ae' = g
             /\ session' = except_handler(session, aa_sum_main_locals)
             /\ exc' = g
             /\ pc' = "raised"
             /\ UNCHANGED <<period_list, period_starts, todo>>
    /\ idx' = 1
    /\ UNCHANGED <<argv, book, account_of_interest, arg, out, gen, stdout>>

\* one pass of the for loop of get_splits(Head(todo), ...)
GetSplitsIter ==
    /\ pc = "scan"
    /\ todo # <<>>
    /\ idx <= Len(book[Head(todo)])
    /\ LET r == get_splits_body(book[Head(todo)][idx], period_starts, period_list)
       IN \/ /\ r.ok
             /\ period_list' = r.val
             /\ idx' = idx + 1
             /\ UNCHANGED <<pc, exc, session, ae>>
          \/ /\ ~r.ok
             /\ ae' = r
             /\ session' = except_handler(session, aa_sum_main_locals)
             /\ exc' = r
             /\ pc' = "raised"
             /\ UNCHANGED <<period_list, idx>>
    /\ UNCHANGED <<argv, book, account_of_interest, period_starts, todo, arg, out,
                   gen, stdout>>

\* get_splits returns: the split list is exhausted
GetSplitsReturn ==
    /\ pc = "scan"
    /\ todo # <<>>
    /\ idx > Len(book[Head(todo)])
    /\ todo' = Tail(todo)
    /\ idx' = 1
    /\ UNCHANGED <<pc, argv, book, account_of_interest, period_list, period_starts,
                   exc, arg, out>>
    /\ UNCHANGED <<gen, session, stdout, ae>>

\* generate_detail_rows(values): one row for each kept split, with its amount
\* converted once more
generate_detail_rows(values) ==
    [j \in 1..Len(values) |->
        [kind |-> "detail",
         value |-> DecimalUnits(gnc_numeric_to_python_decimal(values[j].amount).val)]]

\* the rows of one period with the details of both buckets, asked for or not
period_rows_all_details(period, debits_show, credits_show) ==
    <<[kind |-> "period", start_date |-> period.start_date,
       end_date |-> period.end_date, debit_sum |-> period.debit_sum,
       credit_sum |-> period.credit_sum, total |-> period.total]>>
    \o (IF Len(period.debits) > 0
        THEN <<[kind |-> "DEBITS"]>> \o generate_detail_rows(period.debits)
             \o <<[kind |-> "blank"]>>
        ELSE <<>>)
    \o (IF Len(period.creds) > 0
        THEN <<[kind |-> "CREDITS"]>> \o generate_detail_rows(period.creds)
             \o <<[kind |-> "blank"]>>
        ELSE <<>>)

\* one pass of the loop over period_list: the row of sums, then the details of
\* each bucket if requested on the command line
period_rows(period, debits_show, credits_show) ==
    <<[kind |-> "period", start_date |-> period.start_date,
       end_date |-> period.end_date, debit_sum |-> period.debit_sum,
       credit_sum |-> period.credit_sum, total |-> period.total]>>
    \o (IF debits_show /\ Len(period.debits) > 0
        THEN <<[kind |-> "DEBITS"]>> \o generate_detail_rows(period.debits)
             \o <<[kind |-> "blank"]>>
        ELSE <<>>)
    \o (IF credits_show /\ Len(period.creds) > 0
        THEN <<[kind |-> "CREDITS"]>> \o generate_detail_rows(period.creds)
             \o <<[kind |-> "blank"]>>
        ELSE <<>>)

RECURSIVE write_rows(_, _, _)
write_rows(a_period_list, debits_show, credits_show) ==
    IF a_period_list = <<>> THEN <<>>
    ELSE period_rows(Head(a_period_list), debits_show, credits_show)
         \o write_rows(Tail(a_period_list), debits_show, credits_show)

PROGRAM_ENDED == [kind |-> "PROGRAM ENDED"]

\* the table is written out, the session ended: PROGRAM ENDED
WriteOut ==
    /\ pc = "scan"
    /\ todo = <<>>
    /\ stdout' = stdout \o <<[kind |-> "blank"], [kind |-> "header"]>>
                    \o write_rows(period_list, argv.debits_show, argv.credits_show)
                    \o <<PROGRAM_ENDED>>
    /\ session' = end(session)
    /\ pc' = "done"
    /\ UNCHANGED <<argv, book, account_of_interest, period_list, period_starts,
                   todo, idx, exc, arg, out, gen, ae>>

Next == Resolve \/ BuildPeriods \/ GetSplitsIter \/ GetSplitsReturn \/ WriteOut

Spec == Init /\ [][Next]_vars

\* ------------------------------------ the runs on the arguments of the example
\* monthly periods from (2020, 1), count 3, on a leaf account or on an account
\* with descendants
InitExample ==
    /\ pc = "resolve"
    /\ \E path \in {<<"E">>, <<"A">>} :
          /\ argv = [start_year |-> 2020, start_month |-> 1,
                     period_type |-> "monthly", periods |-> 3,
                     debits_show |-> TRUE, credits_show |-> TRUE,
                     account_path |-> path]
          /\ book \in BooksOver(Scanned(path), MaxExampleSplits)
    /\ account_of_interest = None
    /\ period_list = <<>>
    /\ period_starts = <<>>
    /\ todo = <<>>
    /\ idx = 1
    /\ exc = NoExc
    /\ arg = None
    /\ out = NoExc
    /\ gen = NoGen
    /\ session = Session
    /\ stdout = <<>>
    /\ ae = NoExc

SpecExample == InitExample /\ [][Next]_vars

\* ------------------------------- the runs with details requested or not
\* debits_show = debits_show == DEBITS_SHOW, credits_show likewise: each is
\* true or false; monthly periods from (2020, 1), count 3
InitShow ==
    /\ pc = "resolve"
    /\ \E path \in {<<"E">>, <<"A">>}, ds \in BOOLEAN, cs \in BOOLEAN :
          /\ argv = [start_year |-> 2020, start_month |-> 1,
                     period_type |-> "monthly", periods |-> 3,
                     debits_show |-> ds, credits_show |-> cs,
                     account_path |-> path]
          /\ book \in BooksOver(Scanned(path), MaxSplits)
    /\ account_of_interest = None
    /\ period_list = <<>>
    /\ period_starts = <<>>
    /\ todo = <<>>
    /\ idx = 1
    /\ exc = NoExc
    /\ arg = None
    /\ out = NoExc
    /\ gen = NoGen
    /\ session = Session
    /\ stdout = <<>>
    /\ ae = NoExc

SpecShow == InitShow /\ [][Next]_vars

\* ------------------------------------------- the period table built on its own
YearDomain == {2019, 2020, 2021}
AllPeriodTypes == DOMAIN PERIODS \cup {"fortnightly"}

\* aa_sum_main with the account resolved, on a book without splits
InitPeriods ==
    /\ pc = "periods"
    /\ \E y \in YearDomain, m \in 1..NUM_MONTHS, pt \in AllPeriodTypes,
          n \in 0..MaxCount :
          argv = [start_year |-> y, start_month |-> m, period_type |-> pt,
                  periods |-> n, debits_show |-> TRUE, credits_show |-> TRUE,
                  account_path |-> <<"E">>]
    /\ book = EmptyBook
    /\ account_of_interest = "E"
    /\ period_list = <<>>
    /\ period_starts = <<>>
    /\ todo = <<>>
    /\ idx = 1
    /\ exc = NoExc
    /\ arg = None
    /\ out = NoExc
    /\ gen = NoGen
    /\ session = Session
    /\ stdout = <<>>
    /\ ae = NoExc

NextPeriods == BuildPeriods \/ GetSplitsReturn \/ WriteOut

SpecPeriods == InitPeriods /\ [][NextPeriods]_vars

\* ------------------------------------- gnc_numeric_to_python_decimal on its own
NumDomain == (-MaxNum..MaxNum) \cup {12345, -10000, 100000}
DenomDomain == {1, 10, 100, 1000, 3, 4, 7, 20, 25, 30, 99}

InitDec ==
    /\ pc = "to_decimal"
    /\ arg \in [num : NumDomain, denom : DenomDomain]
    /\ out = NoExc
    /\ argv = NoArgv
    /\ book = EmptyBook
    /\ account_of_interest = None
    /\ period_list = <<>>
    /\ period_starts = <<>>
    /\ todo = <<>>
    /\ idx = 1
    /\ exc = NoExc
    /\ gen = NoGen
    /\ session = NoSession
    /\ stdout = <<>>
    /\ ae = NoExc

ToDecimal ==
    /\ pc = "to_decimal"
    /\ out' = gnc_numeric_to_python_decimal(arg)
    /\ pc' = "converted"
    /\ UNCHANGED <<argv, book, account_of_interest, period_list, period_starts,
                   todo, idx, exc, arg>>
    /\ UNCHANGED <<gen, session, stdout, ae>>

SpecDec == InitDec /\ [][ToDecimal]_vars

\* ------------------------------------------------- account_from_path on its own
RECURSIVE PathsOfLen(_)
PathsOfLen(k) ==
    IF k = 0 THEN {<<>>}
    ELSE {Append(q, n) : q \in PathsOfLen(k - 1), n \in Names}

InitPath ==
    /\ pc = "account_from_path"
    /\ arg \in UNION {PathsOfLen(k) : k \in 1..MaxPathLen}
    /\ out = NoExc
    /\ argv = NoArgv
    /\ book = EmptyBook
    /\ account_of_interest = None
    /\ period_list = <<>>
    /\ period_starts = <<>>
    /\ todo = <<>>
    /\ idx = 1
    /\ exc = NoExc
    /\ gen = NoGen
    /\ session = NoSession
    /\ stdout = <<>>
    /\ ae = NoExc

AccountFromPath ==
    /\ pc = "account_from_path"
    /\ out' = account_from_path("Root", arg, NoPath)
    /\ pc' = "resolved"
    /\ UNCHANGED <<argv, book, account_of_interest, period_list, period_starts,
                   todo, idx, exc, arg>>
    /\ UNCHANGED <<gen, session, stdout, ae>>

SpecPath == InitPath /\ [][AccountFromPath]_vars

\* ------------------------------------------------- next_period_start on its own
InitNext ==
    /\ pc = "next_period_start"
    /\ arg \in [start_year : YearDomain, start_month : 1..NUM_MONTHS,
                period_type : DOMAIN PERIODS]
    /\ out = NoExc
    /\ argv = NoArgv
    /\ book = EmptyBook
    /\ account_of_interest = None
    /\ period_list = <<>>
    /\ period_starts = <<>>
    /\ todo = <<>>
    /\ idx = 1
    /\ exc = NoExc
    /\ gen = NoGen
    /\ session = NoSession
    /\ stdout = <<>>
    /\ ae = NoExc

NextPeriodStart ==
    /\ pc = "next_period_start"
    /\ out' = Return(next_period_start(arg.start_year, arg.start_month,
                                       arg.period_type))
    /\ pc' = "next_returned"
    /\ UNCHANGED <<argv, book, account_of_interest, period_list, period_starts,
                   todo, idx, exc, arg>>
    /\ UNCHANGED <<gen, session, stdout, ae>>

SpecNext == InitNext /\ [][NextPeriodStart]_vars

\* -------------------------------- generate_period_boundaries, one next() a step
\* The frame of the generator: its four parameters, rebound as it runs, the
\* loop variable i, and whether it is suspended at its yield.
StopIteration == Raise("StopIteration", "generate_period_boundaries", <<>>)

\* next() with the year left as it was when the generator resumes
gen_next_keep_year(frame) ==
    LET resumed ==
            IF frame.suspended
            THEN LET nxt == next_period_start(frame.start_year, frame.start_month,
                                              frame.period_type)
                 IN [frame EXCEPT !.start_month = nxt[2],
                                  !.i = @ + 1, !.suspended = FALSE]
            ELSE frame
    IN IF resumed.i >= resumed.periods
       THEN [frame |-> resumed, res |-> StopIteration]
       ELSE LET e == period_end(resumed.start_year, resumed.start_month,
                                resumed.period_type)
            IN IF ~e.ok THEN [frame |-> resumed, res |-> e]
               ELSE [frame |-> [resumed EXCEPT !.suspended = TRUE],
                      res |-> Return(<<date(resumed.start_year,
                                             resumed.start_month, 1), e.val>>)]

\* next() on the generator: resumed after its yield it rebinds start_year and
\* start_month and takes the next i of range(periods); then it yields the next
\* pair, or period_end raises, or the range is exhausted
gen_next(frame) ==
    LET resumed ==
            IF frame.suspended
            THEN LET nxt == next_period_start(frame.start_year, frame.start_month,
                                              frame.period_type)
                 IN [frame EXCEPT !.start_year = nxt[1], !.start_month = nxt[2],
                                  !.i = @ + 1, !.suspended = FALSE]
            ELSE frame
    IN IF resumed.i >= resumed.periods
       THEN [frame |-> resumed, res |-> StopIteration]
       ELSE LET e == period_end(resumed.start_year, resumed.start_month,
                                resumed.period_type)
            IN IF ~e.ok THEN [frame |-> resumed, res |-> e]
               ELSE [frame |-> [resumed EXCEPT !.suspended = TRUE],
                      res |-> Return(<<date(resumed.start_year,
                                             resumed.start_month, 1), e.val>>)]

InitGen ==
    /\ pc = "gen_call"
    /\ arg \in [start_year : YearDomain, start_month : 1..NUM_MONTHS,
                period_type : AllPeriodTypes, periods : 0..MaxCount]
    /\ out = <<>>
    /\ gen = NoGen
    /\ argv = NoArgv
    /\ book = EmptyBook
    /\ account_of_interest = None
    /\ period_list = <<>>
    /\ period_starts = <<>>
    /\ todo = <<>>
    /\ idx = 1
    /\ exc = NoExc
    /\ session = NoSession
    /\ stdout = <<>>
    /\ ae = NoExc

\* generate_period_boundaries(...) is called: a fresh frame, nothing run yet;
\* out gets a new, empty list for what this generator will yield
GenCall ==
    /\ pc = "gen_call"
    /\ gen' = [start_year |-> arg.start_year, start_month |-> arg.start_month,
               period_type |-> arg.period_type, periods |-> arg.periods,
               i |-> 0, suspended |-> FALSE]
    /\ out' = Append(out, <<>>)
    /\ pc' = "gen_iter"
    /\ UNCHANGED <<argv, book, account_of_interest, period_list, period_starts,
                   todo, idx, exc, arg, session, stdout, ae>>

\* the consumer takes the next item; when the generator is exhausted it is
\* called a second time with the same arguments
GenNext ==
    /\ pc = "gen_iter"
    /\ LET r == gen_next(gen)
       IN /\ gen' = r.frame
          /\ \/ /\ r.res.ok
                /\ out' = [out EXCEPT ![Len(out)] = Append(@, r.res.val)]
                /\ UNCHANGED <<pc, exc>>
             \/ /\ r.res = StopIteration
                /\ pc' = IF Len(out) < 2 THEN "gen_call" ELSE "gen_done"
                /\ UNCHANGED <<out, exc>>
             \/ /\ ~r.res.ok /\ r.res # StopIteration
                /\ exc' = r.res
                /\ pc' = "raised"
                /\ out' = out
    /\ UNCHANGED <<argv, book, account_of_interest, period_list, period_starts,
                   todo, idx, arg, session, stdout, ae>>

NextGen == GenCall \/ GenNext

SpecGen == InitGen /\ [][NextGen]_vars

\* ------------------------------------------- find_av_main of findAssetValue.py
\* find_av_main declares gnucash_session global, too
find_av_main_locals ==
    locals({"exe", "gnucash_file", "str_year", "str_month", "str_day",
            "val_year", "val_month", "val_day", "date_of_interest",
            "account_path", "gnucash_session", "book", "commod_tab", "CAD",
            "root_account", "account_of_interest", "iname", "descendants",
            "ae"},
           {"gnucash_session"})

\* what GetBalanceAsOfDate and ConvertBalanceToCurrencyAsOfDate may return
BalanceDomain ==
    { [num |-> 100, denom |-> 1], [num |-> 12345, denom |-> 100],
      [num |-> -25, denom |-> 10], [num |-> 0, denom |-> 1],
      [num |-> 1, denom |-> 3] }

\* find_av_main up to Session(...): the arguments are parsed, the book is open
InitFindAV ==
    /\ pc = "av_resolve"
    /\ \E path \in PathDomain : argv = [NoArgv EXCEPT !.account_path = path]
    /\ book = EmptyBook
    /\ account_of_interest = None
    /\ period_list = <<>>
    /\ period_starts = <<>>
    /\ todo = <<>>
    /\ idx = 1
    /\ exc = NoExc
    /\ arg = None
    /\ out = NoExc
    /\ gen = NoGen
    /\ session = Session
    /\ stdout = <<>>
    /\ ae = NoExc

\* except Exception as ae: the session is ended if it is a local, nothing is
\* raised again, and the function goes on to its last line
FindAVExcept(r, rows) ==
    /\ ae' = r
    /\ session' = except_handler(session, find_av_main_locals)
    /\ exc' = exc
    /\ stdout' = rows \o <<PROGRAM_ENDED>>
    /\ pc' = "av_done"

\* account_of_interest = account_from_path(root_account, account_path)
FindAVResolve ==
    /\ pc = "av_resolve"
    /\ LET r == account_from_path("Root", argv.account_path, NoPath)
       IN \/ /\ r.ok
             /\ account_of_interest' = r.val
             /\ todo' = <<r.val>> \o get_descendants(r.val)
             /\ pc' = "av_show"
             /\ UNCHANGED <<exc, session, stdout, ae>>
          \/ /\ ~r.ok
             /\ FindAVExcept(r, stdout)
             /\ UNCHANGED <<account_of_interest, todo>>
    /\ UNCHANGED <<argv, book, period_list, period_starts, idx, arg, out, gen>>

\* show_asset_info(Head(todo), date_of_interest, CAD): the balance is read,
\* converted and printed, then its value in CAD is read, converted and printed
ShowAssetInfo ==
    /\ pc = "av_show"
    /\ todo # <<>>
    /\ \E acct_bal \in BalanceDomain, acct_cad \in BalanceDomain :
          LET acct_bal_dec == gnc_numeric_to_python_decimal(acct_bal)
              cad_dec == gnc_numeric_to_python_decimal(acct_cad)
              shares == [kind |-> "shares", acct |-> Head(todo),
                         value |-> acct_bal_dec.val]
              in_cad == [kind |-> "CAD", acct |-> Head(todo),
                         value |-> cad_dec.val]
          IN /\ arg' = [acct_bal |-> acct_bal, acct_cad |-> acct_cad]
             /\ \/ /\ ~acct_bal_dec.ok
                   /\ FindAVExcept(acct_bal_dec, stdout)
                   /\ todo' = todo
                \/ /\ acct_bal_dec.ok /\ ~cad_dec.ok
                   /\ FindAVExcept(cad_dec, Append(stdout, shares))
                   /\ todo' = todo
                \/ /\ acct_bal_dec.ok /\ cad_dec.ok
                   /\ stdout' = stdout \o <<shares, in_cad>>
                   /\ todo' = Tail(todo)
                   /\ UNCHANGED <<pc, exc, session, ae>>
    /\ UNCHANGED <<argv, book, account_of_interest, period_list, period_starts,
                   idx, out, gen>>

\* every account is shown: gnucash_session.end(), then PROGRAM ENDED
FindAVEnd ==
    /\ pc = "av_show"
    /\ todo = <<>>
    /\ session' = end(session)
    /\ stdout' = Append(stdout, PROGRAM_ENDED)
    /\ pc' = "av_done"
    /\ UNCHANGED <<argv, book, account_of_interest, period_list, period_starts,
                   todo, idx, exc, arg, out, gen, ae>>

NextFindAV == FindAVResolve \/ ShowAssetInfo \/ FindAVEnd

SpecFindAV == InitFindAV /\ [][NextFindAV]_vars

\* ------------------------------------------------- aa_sum_main of getRevQtr.py
\* aa_sum_main of getRevQtr.py has no global declaration: gnucash_session is
\* one of its locals
rev_aa_sum_main_locals ==
    locals({"exe", "gnucash_file", "str_year", "str_quarter", "rev_year",
            "rev_quarter", "start_month", "gnucash_session", "root_account",
            "account_of_interest", "period_list", "period_starts",
            "descendants", "csv_writer", "ae"},
           {})

\* the names bound at module level in getRevQtr.py
getRevQtr_globals ==
    {"argv", "stdout", "date", "timedelta", "datetime", "bisect_right",
     "Decimal", "log10", "csv", "Session", "GncNumeric", "REV_ACCTS", "PERIODS",
     "NUM_MONTHS", "ONE_DAY", "DEBITS_SHOW", "CREDITS_SHOW", "ZERO",
     "gnc_numeric_to_python_decimal", "next_period_start", "period_end",
     "generate_period_boundaries", "account_from_path", "get_splits",
     "aa_sum_main"}

\* a name read in a function: bound as a local or at module level, or NameError
load_name(name, in_locals, in_globals) ==
    IF name \in in_locals \cup in_globals THEN Return(name)
    ELSE Raise("NameError", "aa_sum_main", name)

\* aa_sum_main up to Session(...): year and quarter are parsed, start_month is
\* computed, the book is open
InitRevQtr ==
    /\ pc = "rev_resolve"
    /\ \E rev_year \in YearDomain, rev_quarter \in 1..4 :
          arg = [rev_year |-> rev_year, rev_quarter |-> rev_quarter,
                 start_month |-> (rev_quarter * 3) - 2]
    /\ book \in BooksOver(BookOrder, MaxSplits)
    /\ argv = NoArgv
    /\ account_of_interest = None
    /\ period_list = <<>>
    /\ period_starts = <<>>
    /\ todo = <<>>
    /\ idx = 1
    /\ exc = NoExc
    /\ out = NoExc
    /\ gen = NoGen
    /\ session = Session
    /\ stdout = <<>>
    /\ ae = NoExc

\* account_of_interest = account_from_path(root_account, account_path): the
\* argument account_path is read first, and it is bound nowhere, so the call is
\* never made; the handler ends the session and raises the error again
RevResolve ==
    /\ pc = "rev_resolve"
    /\ LET r == load_name("account_path", rev_aa_sum_main_locals, getRevQtr_globals)
       IN /\ ~r.ok
          /\ ae' = r
          /\ session' = except_handler(session, rev_aa_sum_main_locals)
          /\ exc' = r
          /\ pc' = "raised"
    /\ UNCHANGED <<argv, book, account_of_interest, period_list, period_starts,
                   todo, idx, arg, out, gen, stdout>>

SpecRevQtr == InitRevQtr /\ [][RevResolve]_vars

\* =================================================================== claims
\* the exact value of a ledger amount in units of 10^-Scale
AmountUnits(amount) == (amount.num * Pow10(Scale)) \div amount.denom

\* the table exists: the list comprehension of aa_sum_main has run
TableBuilt == pc \in {"scan", "done"}

\* (year, month) of the start of the i-th period, counted in months
NthStart(i) ==
    LET k == (argv.start_month - 1) + ((i - 1) * PERIODS[argv.period_type])
    IN <<argv.start_year + (k \div 12), (k % 12) + 1>>

\* C1: for a recognized period kind the periods of the table are contiguous and
\* do not overlap: each starts on the first day of its month, ends the day
\* before the first day of next_period_start of its start, and the day after
\* its end is the start of the next period.
C1_PeriodsContiguous ==
    (TableBuilt /\ argv.period_type \in DOMAIN PERIODS) =>
        /\ Len(period_list) = argv.periods
        /\ \A i \in 1..Len(period_list) :
              LET st == NthStart(i)
                  nxt == next_period_start(st[1], st[2], argv.period_type)
              IN /\ period_list[i].start_date = date(st[1], st[2], 1)
                 /\ period_list[i].end_date = date(nxt[1], nxt[2], 1) - 1
                 /\ period_list[i].start_date <= period_list[i].end_date
                 /\ i < Len(period_list) =>
                       period_list[i].end_date + 1 = period_list[i + 1].start_date

\* two quarters from November: the second starts in February of the next year
C1_Witness ==
    /\ TableBuilt
    /\ argv.period_type = "quarterly" /\ argv.start_month = 11
    /\ Len(period_list) >= 2
    /\ period_list[2].start_date = date(argv.start_year + 1, 2, 1)
    /\ period_list[1].end_date + 1 = period_list[2].start_date

\* C2: in every period of the table debit_sum + credit_sum == total, whatever
\* splits get_splits has processed so far.
C2_SumsAddUp ==
    \A i \in 1..Len(period_list) :
        period_list[i].debit_sum + period_list[i].credit_sum = period_list[i].total

\* a period that took a debit and a credit
C2_Witness ==
    \E i \in 1..Len(period_list) :
        /\ period_list[i].debit_sum > 0
        /\ period_list[i].credit_sum < 0
        /\ period_list[i].total = period_list[i].debit_sum + period_list[i].credit_sum

\* get_splits is about to process the split Cur
AtSplit == pc = "scan" /\ todo # <<>> /\ idx <= Len(book[Head(todo)])
Cur == book[Head(todo)][idx]

Details(p) == {p.debits[j] : j \in 1..Len(p.debits)}
                 \cup {p.creds[j] : j \in 1..Len(p.creds)}
NumDetails(p) == Len(p.debits) + Len(p.creds)

\* C3: the assertion of get_splits never fails; every split kept in a period
\* is dated within [start_date, end_date] of that period; and a split dated
\* within a period (its end_date included) whose amount converts is
\* accumulated into that very period and into no other.
C3_AssignedWithinPeriod ==
    [][ AtSplit =>
          /\ ~(exc'.err = "AssertionError" /\ exc'.where = "get_splits")
          /\ \A i \in 1..Len(period_list') : \A s \in Details(period_list'[i]) :
                period_list'[i].start_date <= s.date /\ s.date <= period_list'[i].end_date
          /\ \A i \in 1..Len(period_list) :
                IF /\ period_list[i].start_date <= Cur.date
                   /\ Cur.date <= period_list[i].end_date
                   /\ gnc_numeric_to_python_decimal(Cur.amount).ok
                THEN /\ NumDetails(period_list'[i]) = NumDetails(period_list[i]) + 1
                     /\ Cur \in Details(period_list'[i])
                ELSE period_list'[i] = period_list[i]
      ]_vars

\* a split dated on the end_date of the period it was accumulated into, which
\* is not the last period
C3_Witness ==
    \E i \in 1..Len(period_list) : \E s \in Details(period_list[i]) :
        /\ s.date = period_list[i].end_date /\ i < Len(period_list)
        /\ period_list[i].total > 0

\* the split falls outside the table: before its first day, after its last, or
\* there is no period at all
OutOfWindow(s) ==
    \/ period_list = <<>>
    \/ s.date < period_list[1].start_date
    \/ s.date > period_list[Len(period_list)].end_date

\* C4: a split dated before the first start_date or after the last end_date,
\* or met with an empty table, raises nothing and changes no field of any
\* period: get_splits goes on to the next split.
C4_OutsideWindowIgnored ==
    [][ (AtSplit /\ OutOfWindow(Cur)) =>
          /\ period_list' = period_list
          /\ period_starts' = period_starts
          /\ exc' = exc
          /\ pc' = "scan"
          /\ idx' = idx + 1
      ]_vars

\* a split after the last end_date has just been passed over, by a table whose
\* first period had taken a split before
C4_Witness ==
    /\ pc = "scan" /\ todo # <<>> /\ idx > 1
    /\ period_list # <<>>
    /\ book[Head(todo)][idx - 1].date > period_list[Len(period_list)].end_date
    /\ NumDetails(period_list[1]) > 0
    /\ exc = NoExc

\* the account of interest and everything below it
Subtree(acct) == <<acct>> \o get_descendants(acct)

\* the accounts get_splits is called on, in order
GetSplitsOrder(acct) ==
    IF Len(get_descendants(acct)) = 0 THEN <<acct>> ELSE get_descendants(acct)

RECURSIVE SplitsOf(_)
SplitsOf(accts) ==
    IF accts = <<>> THEN <<>> ELSE book[Head(accts)] \o SplitsOf(Tail(accts))

RECURSIVE SumUnits(_, _, _)
SumUnits(splits, lo, hi) ==
    IF splits = <<>> THEN 0
    ELSE (IF lo <= Head(splits).date /\ Head(splits).date <= hi
          THEN AmountUnits(Head(splits).amount) ELSE 0)
         + SumUnits(Tail(splits), lo, hi)

AllDecimal(splits) == \A j \in 1..Len(splits) : IsPow10(splits[j].amount.denom)

\* C5: when the account of interest has descendants, the finished table holds
\* in each period the flat sum over the whole subtree, the splits of the
\* account of interest itself included.
C5_SubtreeIncludesParent ==
    (/\ pc = "done"
     /\ Len(get_descendants(account_of_interest)) > 0
     /\ AllDecimal(SplitsOf(Subtree(account_of_interest)))) =>
        \A i \in 1..Len(period_list) :
            period_list[i].total =
                SumUnits(SplitsOf(Subtree(account_of_interest)),
                         period_list[i].start_date, period_list[i].end_date)

\* C6: monthly periods from (2020, 1), count 3, and the splits +100.00 on
\* 2020-01-15, -40.00 on 2020-02-10, +5.00 on 2020-04-01 handed to get_splits
\* in this order: period 1 has debit_sum 100.00, credit_sum 0, total 100.00,
\* period 2 has debit_sum 0, credit_sum -40.00, total -40.00, period 3 is zero.
C6_Splits ==
    << Split(10000, 100, 2020, 1, 15), Split(-4000, 100, 2020, 2, 10),
       Split(500, 100, 2020, 4, 1) >>

C6_Case ==
    /\ pc = "done"
    /\ argv.start_year = 2020 /\ argv.start_month = 1
    /\ argv.period_type = "monthly" /\ argv.periods = 3
    /\ SplitsOf(GetSplitsOrder(account_of_interest)) = C6_Splits

C6_EndToEnd ==
    C6_Case =>
        /\ Len(period_list) = 3
        /\ period_list[1].start_date = date(2020, 1, 1)
        /\ period_list[1].end_date = date(2020, 1, 31)
        /\ period_list[2].start_date = date(2020, 2, 1)
        /\ period_list[2].end_date = date(2020, 2, 29)
        /\ period_list[3].start_date = date(2020, 3, 1)
        /\ period_list[3].end_date = date(2020, 3, 31)
        /\ period_list[1].debit_sum = 100 * Pow10(Scale)
        /\ period_list[1].credit_sum = 0
        /\ period_list[1].total = 100 * Pow10(Scale)
        /\ period_list[2].debit_sum = 0
        /\ period_list[2].credit_sum = -40 * Pow10(Scale)
        /\ period_list[2].total = -40 * Pow10(Scale)
        /\ period_list[3].debit_sum = 0
        /\ period_list[3].credit_sum = 0
        /\ period_list[3].total = 0
        /\ NumDetails(period_list[3]) = 0

\* the example has run to its end
C6_Witness == C6_Case /\ period_list[2].total = -40 * Pow10(Scale)

RECURSIVE SumAmounts(_)
SumAmounts(splits) ==
    IF splits = <<>> THEN 0
    ELSE AmountUnits(Head(splits).amount) + SumAmounts(Tail(splits))

\* C7: a split is classified by the sign of its amount alone: the credits of a
\* period are its splits with a negative amount and credit_sum is their sum,
\* the debits are its splits with an amount >= 0, zero included, and debit_sum
\* is their sum; so debit_sum >= 0 and credit_sum <= 0 in every period.
C7_ClassifiedBySign ==
    \A i \in 1..Len(period_list) :
        LET p == period_list[i]
        IN /\ \A j \in 1..Len(p.debits) : p.debits[j].amount.num >= 0
           /\ \A j \in 1..Len(p.creds) : p.creds[j].amount.num < 0
           /\ p.debit_sum = SumAmounts(p.debits)
           /\ p.credit_sum = SumAmounts(p.creds)
           /\ p.debit_sum >= 0
           /\ p.credit_sum <= 0

\* a table with a period that took a zero amount as a debit and a period that
\* took a credit
C7_Witness ==
    /\ \E i \in 1..Len(period_list) :
          /\ \E j \in 1..Len(period_list[i].debits) :
                period_list[i].debits[j].amount.num = 0
          /\ period_list[i].debit_sum = 0
          /\ period_list[i].creds = <<>>
    /\ \E i \in 1..Len(period_list) :
          /\ period_list[i].credit_sum < 0
          /\ Len(period_list[i].creds) > 0

\* ---------------------------------------------------------------------------
\* numerator and denominator read back from a Decimal
FromDecimal(d) ==
    <<(IF d.sign = 1 THEN -1 ELSE 1) * DigitsToInt(d.digits), Pow10(-d.exp)>>

Converted == pc = "converted"

\* C8: for a numerator n and a denominator 10^k the conversion returns the
\* Decimal with the sign of n, the digits of |n| and exponent -k, which is
\* zero for n = 0, and numerator and denominator read back from it are n, 10^k.
C8_ExactRoundTrip ==
    (Converted /\ IsPow10(arg.denom)) =>
        /\ out.ok
        /\ out.val.sign = (IF arg.num < 0 THEN 1 ELSE 0)
        /\ DigitsToInt(out.val.digits) = Abs(arg.num)
        /\ Len(out.val.digits) = 1 \/ out.val.digits[1] # 0
        /\ \A j \in 1..Len(out.val.digits) : out.val.digits[j] \in 0..9
        /\ out.val.exp <= 0
        /\ Pow10(-out.val.exp) = arg.denom
        /\ FromDecimal(out.val) = <<arg.num, arg.denom>>
        /\ arg.num = 0 => \A j \in 1..Len(out.val.digits) : out.val.digits[j] = 0

\* -12345 / 1000 converted
C8_Witness ==
    /\ Converted /\ out.ok
    /\ arg.num < -MaxNum /\ arg.denom = 1000
    /\ out.val.sign = 1 /\ out.val.exp = -3 /\ Len(out.val.digits) = 5

\* n/d has a terminating decimal expansion with at most 9 places
Terminates(n, d) ==
    LET q == d \div Gcd(n, d) IN \E k \in 0..9 : Pow10(k) % q = 0

\* C9 as claimed: the conversion raises for every denominator that is not a
\* power of ten, and for no denominator that is one.
C9_FailsIffNotPowerOfTen ==
    Converted => (out.ok <=> IsPow10(arg.denom))

\* C9 as amended: the conversion raises whenever n/d has no terminating decimal
\* expansion, never raises for a denominator that is a power of ten, and what
\* it returns has a power of ten as denominator and exactly the value n/d.
C9_FailsIfNotTerminating ==
    Converted =>
        /\ ~Terminates(Abs(arg.num), arg.denom) => ~out.ok
        /\ IsPow10(arg.denom) => out.ok
        /\ out.ok =>
              /\ out.val.exp <= 0
              /\ FromDecimal(out.val)[1] * arg.denom
                    = arg.num * FromDecimal(out.val)[2]

\* 1/3 raised, nothing returned
C9_Witness ==
    /\ Converted /\ arg.num = 1 /\ arg.denom = 3
    /\ ~out.ok /\ out.err = "Exception"

\* ---------------------------------------------------------------------------
\* the child of acct named name, or None
Child(acct, name) ==
    IF \E a \in Accounts \ {"Root"} : AcctParent[a] = acct /\ AcctName[a] = name
    THEN CHOOSE a \in Accounts \ {"Root"} : AcctParent[a] = acct /\ AcctName[a] = name
    ELSE None

\* the account the first n segments of path lead to from Root, or None
RECURSIVE Walk(_, _)
Walk(path, n) ==
    IF n = 0 THEN "Root"
    ELSE LET before == Walk(path, n - 1)
         IN IF before = None THEN None ELSE Child(before, path[n])

\* C10: on a non-empty path account_from_path returns the account reached by
\* looking each segment up as a child of the account before it, and when some
\* segment, at whatever depth, has no such child it raises an exception that
\* carries the whole path it was first called with.
C10_FullPathReported ==
    pc = "resolved" =>
        IF Walk(arg, Len(arg)) = None
        THEN ~out.ok /\ out.err = "Exception" /\ out.info = arg
        ELSE out.ok /\ out.val = Walk(arg, Len(arg))

\* the second of three segments is missing: the exception carries all three
C10_Witness ==
    /\ pc = "resolved"
    /\ Len(arg) = 3 /\ Walk(arg, 1) # None /\ Walk(arg, 2) = None
    /\ ~out.ok /\ out.info = arg


\* ---------------------------------------------------------------------------
\* months since year 0 of (year, month)
MonthIndex(y, m) == (12 * y) + (m - 1)

\* C11: for every year, every month 1..12 and every period length L of PERIODS
\* next_period_start returns (year + (month - 1 + L) div 12,
\* ((month - 1 + L) mod 12) + 1): a month in 1..12, exactly L months after
\* (year, month); (2020, 11) and 3 months give (2021, 2).
C11_AddsPeriodLength ==
    pc = "next_returned" =>
        LET L == PERIODS[arg.period_type]
            k == (arg.start_month - 1) + L
        IN /\ out.ok
           /\ out.val = <<arg.start_year + (k \div 12), (k % 12) + 1>>
           /\ out.val[2] \in 1..12
           /\ MonthIndex(out.val[1], out.val[2])
                 = MonthIndex(arg.start_year, arg.start_month) + L
           /\ (arg.start_year = 2020 /\ arg.start_month = 11 /\ L = 3)
                 => out.val = <<2021, 2>>

\* a quarter from November 2020 returned February 2021
C11_Witness ==
    /\ pc = "next_returned"
    /\ arg.start_year = 2020 /\ arg.start_month = 11
    /\ arg.period_type = "quarterly"
    /\ out.val = <<2021, 2>>


\* ---------------------------------------------------------------------------
\* (year, month) reached from (y, m) by k applications of next_period_start
RECURSIVE StartAfter(_, _, _, _)
StartAfter(y, m, pt, k) ==
    IF k = 0 THEN <<y, m>>
    ELSE LET nxt == next_period_start(y, m, pt)
         IN StartAfter(nxt[1], nxt[2], pt, k - 1)

\* C12: a generator of generate_period_boundaries run to exhaustion has yielded
\* exactly `periods` periods; the first starts on day 1 of (start_year,
\* start_month), each later one on day 1 of next_period_start of the start of
\* the one before; what it yields is what the table of aa_sum_main is built
\* from; and a second generator made with the same arguments yields the same
\* sequence.
C12_GeneratorRestarts ==
    pc = "gen_done" =>
        /\ Len(out) = 2
        /\ Len(out[1]) = arg.periods
        /\ \A i \in 1..Len(out[1]) :
              LET st == StartAfter(arg.start_year, arg.start_month,
                                   arg.period_type, i - 1)
              IN out[1][i][1] = date(st[1], st[2], 1)
        /\ out[1] = generate_period_boundaries(arg.start_year, arg.start_month,
                                               arg.period_type, arg.periods).val
        /\ out[2] = out[1]

\* four quarters from November 2020 yielded twice over: the second period starts
\* in February 2021
C12_Witness ==
    /\ pc = "gen_done"
    /\ arg.start_year = 2020 /\ arg.start_month = 11
    /\ arg.period_type = "quarterly" /\ arg.periods >= 2
    /\ Len(out[2]) = arg.periods
    /\ out[2][2][1] = date(2021, 2, 1)
    /\ out[2][1][1] = date(2020, 11, 1)


\* ---------------------------------------------------------------------------
\* C13: once aa_sum_main has built its table with a period kind that is not a
\* key of PERIODS, whatever the start year, start month and period count, it
\* has failed with the exception of period_end that names the kind and lists
\* the keys of PERIODS, and no period has been produced.
C13_InvalidKindFails ==
    (argv.period_type \notin DOMAIN PERIODS /\ pc # "periods") =>
        /\ pc = "raised"
        /\ exc = Raise("Exception", "period_end",
                       <<argv.period_type, DOMAIN PERIODS>>)
        /\ period_list = <<>>

\* ---------------------------------------------------------------------------
\* the number of rows of a kind written so far
Rows(rows, kind) == Cardinality({j \in 1..Len(rows) : rows[j].kind = kind})

\* the values of the detail rows of the block that starts at row j
RECURSIVE BlockValues(_, _)
BlockValues(rows, j) ==
    IF j + 1 > Len(rows) \/ rows[j + 1].kind # "detail" THEN <<>>
    ELSE <<rows[j + 1].value>> \o BlockValues(rows, j + 1)

\* the detail blocks of a kind, in the order written
DetailBlocks(rows, kind) ==
    LET at == {j \in 1..Len(rows) : rows[j].kind = kind}
        RECURSIVE From(_)
        From(j) == IF j > Len(rows) THEN <<>>
                   ELSE (IF j \in at THEN <<BlockValues(rows, j)>> ELSE <<>>)
                        \o From(j + 1)
    IN From(1)

\* the amounts of the non-empty lists of a bucket, period by period
RECURSIVE KeptAmounts(_, _)
KeptAmounts(a_period_list, bucket) ==
    IF a_period_list = <<>> THEN <<>>
    ELSE LET values == IF bucket = "DEBITS" THEN Head(a_period_list).debits
                       ELSE Head(a_period_list).creds
         IN (IF values = <<>> THEN <<>>
             ELSE <<[j \in 1..Len(values) |-> AmountUnits(values[j].amount)]>>)
            \o KeptAmounts(Tail(a_period_list), bucket)

\* C14 as claimed: a movement record is kept in a detail list only when details
\* were requested for that bucket; not requested, the list stays empty.
C14_KeptOnlyWhenRequested ==
    \A i \in 1..Len(period_list) :
        /\ ~argv.debits_show => period_list[i].debits = <<>>
        /\ ~argv.credits_show => period_list[i].creds = <<>>

\* C14 as amended: get_splits appends every split it accumulates to the debit
\* list (amount >= 0) or the credit list (amount < 0) of its period and leaves
\* the other list alone, requested or not; the request governs the output: a
\* period's DEBITS (CREDITS) block is written exactly when details were
\* requested for the bucket and the list is not empty, and it holds the
\* amounts of the list.
C14_KeptAlwaysShownOnRequest ==
    [][ /\ (AtSplit /\ ~OutOfWindow(Cur)
              /\ gnc_numeric_to_python_decimal(Cur.amount).ok) =>
              \E i \in 1..Len(period_list) :
                  /\ period_list[i].start_date <= Cur.date
                  /\ Cur.date <= period_list[i].end_date
                  /\ IF Cur.amount.num < 0
                     THEN /\ period_list'[i].creds = Append(period_list[i].creds, Cur)
                          /\ period_list'[i].debits = period_list[i].debits
                     ELSE /\ period_list'[i].debits = Append(period_list[i].debits, Cur)
                          /\ period_list'[i].creds = period_list[i].creds
        /\ pc' = "done" =>
              /\ period_list' = period_list
              /\ DetailBlocks(stdout', "DEBITS")
                    = (IF argv.debits_show THEN KeptAmounts(period_list, "DEBITS")
                       ELSE <<>>)
              /\ DetailBlocks(stdout', "CREDITS")
                    = (IF argv.credits_show THEN KeptAmounts(period_list, "CREDITS")
                       ELSE <<>>)
              /\ Rows(stdout', "period") = Len(period_list)
      ]_vars

\* a finished run without debits-show and with credits-show whose table kept a
\* debit and a credit: no DEBITS block was written, a CREDITS block was
C14_Witness ==
    /\ pc = "done"
    /\ ~argv.debits_show /\ argv.credits_show
    /\ \E i \in 1..Len(period_list) : Len(period_list[i].debits) > 0
    /\ \E i \in 1..Len(period_list) : Len(period_list[i].creds) > 0
    /\ Rows(stdout, "DEBITS") = 0
    /\ Rows(stdout, "CREDITS") > 0

\* ---------------------------------------------------------------------------
\* C15: in find_av_main, as in the other entry points, an error raised by
\* account resolution or by the decimal conversion leaves the main function as
\* that very exception: it is not swallowed, and the run does not go on to
\* print PROGRAM ENDED.
C15_ErrorsPropagate ==
    ae # NoExc =>
        /\ exc = ae
        /\ Rows(stdout, "PROGRAM ENDED") = 0

\* ---------------------------------------------------------------------------
\* how often the split s occurs in a sequence of splits
Occurrences(splits, s) == Cardinality({j \in 1..Len(splits) : splits[j] = s})

\* the sum over the distinct splits of S, each counted as often as it occurs in
\* splits, of the amounts dated in [lo, hi] whose sign is in signs: a function
\* of the multiset of the splits, not of their order
RECURSIVE MultisetSum(_, _, _, _, _)
MultisetSum(S, splits, lo, hi, signs) ==
    IF S = {} THEN 0
    ELSE LET s == CHOOSE x \in S : TRUE
             sign == IF s.amount.num < 0 THEN -1 ELSE 1
         IN (IF lo <= s.date /\ s.date <= hi /\ sign \in signs
             THEN Occurrences(splits, s) * AmountUnits(s.amount) ELSE 0)
            + MultisetSum(S \ {s}, splits, lo, hi, signs)

\* the splits handed to get_splits, in the order they were
Processed == SplitsOf(GetSplitsOrder(account_of_interest))

\* C16: the finished table is a function of the multiset of the splits
\* processed: in every period debit_sum, credit_sum and total are the sums over
\* that multiset of the amounts >= 0, < 0 and of either sign dated within the
\* period, whatever the order of the splits within an account and whatever
\* accounts, visited in whatever order, they came from.
C16_OrderIndependent ==
    pc = "done" =>
        \A i \in 1..Len(period_list) :
            LET p == period_list[i]
            IN /\ p.debit_sum = MultisetSum(SplitDomain, Processed,
                                            p.start_date, p.end_date, {1})
               /\ p.credit_sum = MultisetSum(SplitDomain, Processed,
                                             p.start_date, p.end_date, {-1})
               /\ p.total = MultisetSum(SplitDomain, Processed,
                                        p.start_date, p.end_date, {-1, 1})

\* a finished run that was handed a later split before an earlier one, both
\* debits of one period, and a credit from another account after them
C16_Witness ==
    /\ pc = "done"
    /\ Len(Processed) = 3
    /\ Processed[1].date > Processed[2].date
    /\ Len(period_list[1].debits) = 2
    /\ period_list[1].debit_sum
          = AmountUnits(Processed[1].amount) + AmountUnits(Processed[2].amount)
    /\ Len(period_list[2].creds) = 1
    /\ Len(book["A:B"]) = 2 /\ Len(book["A:C"]) = 1

\* ---------------------------------------------------------------------------
\* the main function has been left, by its last line or by an exception
Exited == pc \in {"done", "raised", "av_done"}

\* C17: when the main function is left with the session opened, on success or
\* on any error path, gnucash_session.end() has been called exactly once; and
\* it is never called a second time.
C17_SessionEndedOnce ==
    /\ session.ends <= 1
    /\ (Exited /\ session.opened) => session.ends = 1

\* ---------------------------------------------------------------------------
\* C18: aa_sum_main of getRevQtr.py, on a readable book with a year and a
\* quarter q in 1..4, gets past account resolution without an error and builds
\* exactly one period, from the first day of month 3q-2 to the last day of
\* month 3q of that year.
C18_QuarterBuilt ==
    pc # "rev_resolve" =>
        /\ exc = NoExc
        /\ ae = NoExc
        /\ Len(period_list) = 1
        /\ period_list[1].start_date
              = date(arg.rev_year, (3 * arg.rev_quarter) - 2, 1)
        /\ period_list[1].end_date + 1
              = (IF arg.rev_quarter = 4 THEN date(arg.rev_year + 1, 1, 1)
                 ELSE date(arg.rev_year, (3 * arg.rev_quarter) + 1, 1))

====
